---- MODULE Spec2Model ----
(***************************************************************************)
(* State-machine model of the research relay: event admission (hash check, *)
(* size limit, pricing, payment gate, persistence), the subscription       *)
(* registry with its filter matcher and broadcast, the historical replay   *)
(* of REQ, and the invoice endpoints of the HTTP API.                      *)
(*                                                                         *)
(* Every `await` of a handler is a scheduling point: a handler is a task   *)
(* whose pc names the call it is waiting for, and the action that resumes  *)
(* it performs that call and the synchronous code that follows it up to    *)
(* the next await.                                                         *)
(***************************************************************************)
EXTENDS Integers, Sequences, FiniteSets, TLC

VARIABLES
  events,         \* table events: id -> row (id is the PRIMARY KEY)
  papers,         \* table research_papers: event_id -> row (event_id UNIQUE)
  files,          \* content store: ids that have a content file
  invoices,       \* table lightning_invoices: payment_hash -> row
  config,         \* table relay_config: key -> value, for the keys present
  ledger,         \* payment hashes the external ledger has settled
  macaroon,       \* LightningService mode: "mock" or "lnd"
  subscriptions,  \* NostrService.subscriptions: subscription id -> {ws, filters}
  open,           \* ws.readyState === OPEN, per connection
  outbox,         \* messages sent on each connection, in order
  tasks,          \* websocket message handlers, in arrival order
  checks,         \* GET /payment/:payment_hash handlers, in arrival order
  probe           \* one application of a pure function: its input and result

vars == <<events, papers, files, invoices, config, ledger, macaroon,
          subscriptions, open, outbox, tasks, checks, probe>>

dbVars == <<events, papers, files>>
payVars == <<invoices, ledger, macaroon, checks, probe>>
wsVars == <<subscriptions, open, outbox, tasks>>

----------------------------------------------------------------------------
\* Bounds of the model.

MaxTasks == 2      \* websocket messages received in one run of Spec
MaxPayTasks == 2   \* websocket messages received in one run of SpecPay
MaxChecks == 1     \* payment-status requests received in one run
MaxReplayTasks == 3   \* websocket messages received in one run of SpecReplay
MaxConnTasks == 3     \* websocket messages received in one run of SpecConn
MaxInvoiceChecks == 2 \* payment-status requests received in one run of SpecInvoice
MaxInvoiceTasks == 1  \* websocket messages received in one run of SpecInvoice
MaxGateTasks == 2     \* websocket messages received in one run of SpecGate
MaxSizeTasks == 2     \* websocket messages received in one run of SpecSize
MaxMsgTasks == 3      \* websocket messages received in one run of SpecMsg
MaxFailTasks == 3     \* websocket messages received in one run of SpecFail
MaxStoreTasks == 3    \* websocket messages received in one run of SpecStore
MaxDeleteTasks == 3   \* messages and DELETE requests received in one run of SpecDelete
MaxRoundTasks == 3    \* websocket messages received in one run of SpecRound
MaxOrderTasks == 3    \* websocket messages received in one run of SpecOrder
MaxTagTasks == 3      \* websocket messages received in one run of SpecTag
MaxHangTasks == 3     \* websocket messages received in one run of SpecHang
MaxQuoteTasks == 2  \* websocket messages received in one run of SpecQuote
MaxPaidTasks == 2   \* websocket messages received in one run of SpecPaid
MaxOverlapTasks == 3  \* websocket messages received in one run of SpecOverlap

Conns == {"A", "B"}
SubIds == {"s1", "s2"}
Pubkeys == {"p1", "p2"}
Hashes == {"h1", "h2"}

\* Program constants.
KindPaper == 30023
KindHighlight == 9802
KindReply == 1
KindReaction == 7
KindComment == 1111
DefaultMaxContentSize == 52428800
DefaultFlatRate == 1
DefaultQueryLimit == 100

Undefined == "<undefined>"

\* JavaScript truthiness of a string-or-undefined and of a number.
TruthyStr(s) == s # Undefined /\ s # ""
TruthyNum(n) == n # 0

Has(f, k) == k \in DOMAIN f

Range(f) == {f[x] : x \in DOMAIN f}

NoRow == << >>

----------------------------------------------------------------------------
\* utils/crypto.ts

\* JSON.stringify([0, pubkey, created_at, kind, tags, content]) followed by
\* sha256: the digest is modelled as collision free, so it is a tagged copy
\* of the serialisation.  The id and sig fields are not part of it.
\* An event may carry its kind as a JSON string of digits ("7") where a
\* number (7) is expected: the field kindAsText marks it, and kind holds the
\* number the digits spell.
IsTextKind(event) == Has(event, "kindAsText")

\* The JSON text of the kind: "7" and 7 serialise differently.
stringifyKind(event) ==
  IF IsTextKind(event) THEN [string |-> event.kind] ELSE [number |-> event.kind]

getEventHash(event) ==
  [sha256 |-> <<0, event.pubkey, event.created_at, stringifyKind(event), event.tags,
                event.content>>]

\* A verifier that lets every event through.
validateNothing(event) == TRUE

validateEventSignature(event) == event.id = getEventHash(event)

\* Buffer.byteLength(content, 'utf8'); contents are ASCII strings.
calculateContentSize(content) == Len(content)

----------------------------------------------------------------------------
\* db/sqlite.ts

\* parseInt(await getConfig(key) || fallback): the row's value, or the
\* fallback when relay_config has no row for the key.
configInt(key, fallback) == IF Has(config, key) THEN config[key] ELSE fallback

\* The row the INSERT of saveEvent stores for an event.  The column kind has
\* INTEGER affinity, so digits given as text are stored as the integer; tags
\* are written with JSON.stringify and read back with JSON.parse by
\* getEvents, which gives the same array.
eventRow(event) == [f \in DOMAIN event \ {"kindAsText"} |-> event[f]]

\* INSERT OR IGNORE INTO events
saveEventRows(event) ==
  IF event.id \in DOMAIN events THEN events ELSE events @@ (event.id :> eventRow(event))

\* One populated column constraint of the WHERE clause of getEvents.
RowSelectedBy(row, filter) ==
  /\ (Has(filter, "ids") /\ filter.ids # {}) => row.id \in filter.ids
  /\ (Has(filter, "authors") /\ filter.authors # {}) => row.pubkey \in filter.authors
  /\ (Has(filter, "kinds") /\ filter.kinds # {}) => row.kind \in filter.kinds
  /\ (Has(filter, "since") /\ TruthyNum(filter.since)) => row.created_at >= filter.since
  /\ (Has(filter, "until") /\ TruthyNum(filter.until)) => row.created_at <= filter.until

\* The WHERE clause: the constraints of every filter are ANDed together.
RowSelected(row, filters) ==
  \A i \in 1..Len(filters) : RowSelectedBy(row, filters[i])

IsDescending(rows) ==
  \A i \in 1..(Len(rows) - 1) : rows[i].created_at >= rows[i + 1].created_at

Min(a, b) == IF a < b THEN a ELSE b

\* A query without ORDER BY: the selected rows in any order.
getEventsUnordered(filters, limit) ==
  LET selected == {row \in Range(events) : RowSelected(row, filters)}
      n == Cardinality(selected)
      orders == {rows \in [1..n -> selected] :
                   \A i, j \in 1..n : i # j => rows[i] # rows[j]}
  IN {SubSeq(rows, 1, Min(limit, n)) : rows \in orders}

\* The possible results of getEvents(filters): the selected rows ORDER BY
\* created_at DESC (rows of equal created_at in any order) LIMIT limit.
getEvents(filters, limit) ==
  LET selected == {row \in Range(events) : RowSelected(row, filters)}
      n == Cardinality(selected)
      orders == {rows \in [1..n -> selected] :
                   /\ \A i, j \in 1..n : i # j => rows[i] # rows[j]
                   /\ IsDescending(rows)}
  IN {SubSeq(rows, 1, Min(limit, n)) : rows \in orders}

\* SELECT * FROM lightning_invoices WHERE payment_hash = ?; NoRow is null.
getInvoice(paymentHash) ==
  IF paymentHash \in DOMAIN invoices THEN invoices[paymentHash] ELSE NoRow

----------------------------------------------------------------------------
\* services/pricing.ts

\* parseInt(getConfig('flat_rate_sats') || '1'); the size does not enter.
calculatePrice(sizeBytes) == configInt("flat_rate_sats", DefaultFlatRate)

calculateCommentPrice(sizeBytes) == configInt("flat_rate_sats", DefaultFlatRate)

----------------------------------------------------------------------------
\* services/nostr.ts: helpers

\* tags.find(tag => tag[0] === tagName), then tag[1]
getTagValue(tags, tagName) ==
  LET hits == {i \in 1..Len(tags) : Len(tags[i]) >= 1 /\ tags[i][1] = tagName}
  IN IF hits = {} THEN Undefined
     ELSE LET first == CHOOSE i \in hits : \A j \in hits : i <= j
          IN IF Len(tags[first]) >= 2 THEN tags[first][2] ELSE Undefined

FilterMatches(event, filter) ==
  /\ ~(Has(filter, "ids") /\ event.id \notin filter.ids)
  /\ ~(Has(filter, "authors") /\ event.pubkey \notin filter.authors)
  /\ ~(Has(filter, "kinds") /\ (IsTextKind(event) \/ event.kind \notin filter.kinds))
  /\ ~(Has(filter, "since") /\ TruthyNum(filter.since) /\ event.created_at < filter.since)
  /\ ~(Has(filter, "until") /\ TruthyNum(filter.until) /\ event.created_at > filter.until)

\* filters.some(filter => ...)
eventMatchesFilters(event, filters) ==
  \E i \in 1..Len(filters) : FilterMatches(event, filters[i])

OKMsg(id, ok, reason) == [type |-> "OK", id |-> id, ok |-> ok, reason |-> reason]
EventMsg(sub, event) == [type |-> "EVENT", sub |-> sub, event |-> event]
EoseMsg(sub) == [type |-> "EOSE", sub |-> sub]
NoticeMsg(text) == [type |-> "NOTICE", text |-> text]
\* sendOK(ws, id, false, `Payment required: ${amount} sats. Create invoice first.`)
PayMsg(id, amount) ==
  [type |-> "OK", id |-> id, ok |-> FALSE, reason |-> "Payment required", sats |-> amount]

\* sendMessage: the messages are sent only while the socket is OPEN.
sendMessage(box, ws, msgs) ==
  IF open[ws] THEN [box EXCEPT ![ws] = box[ws] \o msgs] ELSE box


\* A registry that keeps the old entry when a name is set again.
subscriptionsAdd(subs, id, ws, filters) ==
  Append(subs, [id |-> id, ws |-> ws, filters |-> filters])

\* subscriptions.set(subscriptionId, {ws, filters}): a Map keeps insertion
\* order, and setting an existing key replaces its value in place.
subscriptionsSet(subs, id, ws, filters) ==
  IF \E i \in 1..Len(subs) : subs[i].id = id
  THEN [i \in 1..Len(subs) |->
          IF subs[i].id = id THEN [id |-> id, ws |-> ws, filters |-> filters]
          ELSE subs[i]]
  ELSE Append(subs, [id |-> id, ws |-> ws, filters |-> filters])

\* subscriptions.delete(subscriptionId)
subscriptionsDelete(subs, id) == SelectSeq(subs, LAMBDA s : s.id # id)

RECURSIVE Concat(_)
Concat(seqs) == IF seqs = << >> THEN << >> ELSE Head(seqs) \o Concat(Tail(seqs))

\* A broadcast that sends one message for each matching filter.
DeliveriesPerFilter(event, ws) ==
  LET mine == SelectSeq(subscriptions, LAMBDA s : s.ws = ws)
      perFilter(s) ==
        LET hit == SelectSeq(s.filters, LAMBDA f : FilterMatches(event, f))
        IN [k \in 1..Len(hit) |-> EventMsg(s.id, event)]
  IN Concat([k \in 1..Len(mine) |-> perFilter(mine[k])])

\* The EVENT messages one broadcast sends on connection ws: one for each
\* registry entry of that socket whose filters match, in Map order.
Deliveries(event, ws) ==
  LET hit == SelectSeq(subscriptions,
                       LAMBDA s : s.ws = ws /\ eventMatchesFilters(event, s.filters))
  IN [i \in 1..Len(hit) |-> EventMsg(hit[i].id, event)]

\* A broadcast whose messages overtake what the socket has still to send.
broadcastEventAhead(box, event) ==
  [c \in Conns |-> IF open[c] THEN Deliveries(event, c) \o box[c] ELSE box[c]]

\* broadcastEvent(event), applied to the outboxes box.
broadcastEvent(box, event) ==
  [c \in Conns |-> IF open[c] THEN box[c] \o Deliveries(event, c) ELSE box[c]]

----------------------------------------------------------------------------
\* Tasks: one per websocket message that reaches an await.

NoReply == [type |-> "none"]

EventTask(ws, event, pc, reply) ==
  [type |-> "EVENT", conn |-> ws, event |-> event, pc |-> pc, price |-> 0,
   reply |-> reply]

ReqTask(ws, sub, filters) ==
  [type |-> "REQ", conn |-> ws, sub |-> sub, filters |-> filters, pc |-> "getEvents",
   rows |-> << >>, mark |-> Len(outbox[ws])]

CloseTask(ws, sub) ==
  [type |-> "CLOSE", conn |-> ws, sub |-> sub, pc |-> "done", mark |-> Len(outbox[ws])]

AtPc(i, type, pc) ==
  /\ i \in 1..Len(tasks)
  /\ tasks[i].type = type
  /\ tasks[i].pc = pc

\* The handler of task i answers with the OK message msg and ends.
Answer(i, msg) ==
  /\ tasks' = [tasks EXCEPT ![i].pc = "done", ![i].reply = msg]
  /\ outbox' = sendMessage(outbox, tasks[i].conn, <<msg>>)

\* The catch block of handleEvent: sendOK(ws, event.id, false, 'Server error').
ServerError(i) == Answer(i, OKMsg(tasks[i].event.id, FALSE, "Server error"))

Goto(i, pc) == tasks' = [tasks EXCEPT ![i].pc = pc]

\* The await that handleEvent reaches first for a valid event of this kind.
FirstAwait(kind) ==
  CASE kind = KindPaper -> "paper:getConfig"
    [] kind = KindHighlight -> "free:saveEvent"
    [] kind = KindReply -> "reply:calculateCommentPrice"
    [] kind = KindReaction -> "free:saveEvent"
    [] kind = KindComment -> "comment:calculateCommentPrice"
    [] OTHER -> "free:saveEvent"

\* The tests event.kind === 30023, ... are strict: a kind given as text
\* equals none of the numbers and the event takes the default branch.
AwaitOf(event) ==
  IF IsTextKind(event) THEN "free:saveEvent" ELSE FirstAwait(event.kind)

\* handleMessage 'EVENT' -> handleEvent, up to its first await.
RecvEvent(ws, event) ==
  /\ open[ws]
  /\ IF ~validateEventSignature(event)
     THEN LET msg == OKMsg(event.id, FALSE, "Invalid signature")
          IN /\ tasks' = Append(tasks, EventTask(ws, event, "done", msg))
             /\ outbox' = sendMessage(outbox, ws, <<msg>>)
     ELSE /\ tasks' = Append(tasks, EventTask(ws, event, AwaitOf(event), NoReply))
          /\ UNCHANGED outbox
  /\ UNCHANGED <<dbVars, payVars, config, subscriptions, open>>

\* handleResearchPaper: the size check, after getConfig('max_content_size').
PaperSize(i) ==
  /\ AtPc(i, "EVENT", "paper:getConfig")
  /\ LET event == tasks[i].event
         contentSize == calculateContentSize(event.content)
         maxSize == configInt("max_content_size", DefaultMaxContentSize)
     IN IF contentSize > maxSize
        THEN Answer(i, OKMsg(event.id, FALSE, "Content too large"))
        ELSE Goto(i, "paper:calculatePrice") /\ UNCHANGED outbox
  /\ UNCHANGED <<dbVars, payVars, config, subscriptions, open>>

\* handleResearchPaper: the price, and the test for a payment reference.
PaperPrice(i) ==
  /\ AtPc(i, "EVENT", "paper:calculatePrice")
  /\ LET event == tasks[i].event
         amount == calculatePrice(calculateContentSize(event.content))
         paymentHash == getTagValue(event.tags, "payment_hash")
     IN IF amount > 0
        THEN IF ~TruthyStr(paymentHash)
             THEN /\ tasks' = [tasks EXCEPT ![i].pc = "done", ![i].price = amount,
                                 ![i].reply = PayMsg(event.id, amount)]
                  /\ outbox' = sendMessage(outbox, tasks[i].conn, <<PayMsg(event.id, amount)>>)
             ELSE /\ tasks' = [tasks EXCEPT ![i].pc = "paper:getInvoice", ![i].price = amount]
                  /\ UNCHANGED outbox
        ELSE /\ tasks' = [tasks EXCEPT ![i].pc = "paper:saveResearchPaper", ![i].price = amount]
             /\ UNCHANGED outbox
  /\ UNCHANGED <<dbVars, payVars, config, subscriptions, open>>

\* Tests on the invoice that look at the amount before the paid flag.
InvoiceVerdictAmountFirst(invoice, amount) ==
  IF invoice = NoRow THEN "Invalid payment hash"
  ELSE IF invoice.amount_sats < amount THEN "Insufficient payment amount"
  ELSE IF ~invoice.paid THEN "Payment not completed"
  ELSE ""

\* handleResearchPaper: the tests on the invoice, after getInvoice(paymentHash).
\* The result is "" when the gate lets the event through.
InvoiceVerdict(invoice, amount) ==
  IF invoice = NoRow THEN "Invalid payment hash"
  ELSE IF ~invoice.paid THEN "Payment not completed"
  ELSE IF invoice.amount_sats < amount THEN "Insufficient payment amount"
  ELSE ""

PaperInvoice(i) ==
  /\ AtPc(i, "EVENT", "paper:getInvoice")
  /\ LET event == tasks[i].event
         invoice == getInvoice(getTagValue(event.tags, "payment_hash"))
         verdict == InvoiceVerdict(invoice, tasks[i].price)
     IN IF verdict # ""
        THEN Answer(i, OKMsg(event.id, FALSE, verdict))
        ELSE Goto(i, "paper:saveResearchPaper") /\ UNCHANGED outbox
  /\ UNCHANGED <<dbVars, payVars, config, subscriptions, open>>

\* A DATETIME column: the ISO string of a time in milliseconds, or NULL.
toISOString(ms) == [iso |-> ms]
Null == [null |-> TRUE]

\* The row handleResearchPaper hands to saveResearchPaper.
PaperRow(event, amount) ==
  [event_id |-> event.id,
   status |-> "published",
   size_bytes |-> calculateContentSize(event.content),
   payment_hash |-> getTagValue(event.tags, "payment_hash"),
   price_paid |-> amount,
   published_at |-> toISOString(event.created_at * 1000)]

\* db.saveResearchPaper: a plain INSERT; event_id is UNIQUE, so a second row
\* for the same event fails and handleEvent's catch answers 'Server error'.
PaperRecord(i) ==
  /\ AtPc(i, "EVENT", "paper:saveResearchPaper")
  /\ LET event == tasks[i].event
     IN IF event.id \in DOMAIN papers
        THEN ServerError(i) /\ UNCHANGED papers
        ELSE /\ papers' = papers @@ (event.id :> PaperRow(event, tasks[i].price))
             /\ Goto(i, "paper:storage")
             /\ UNCHANGED outbox
  /\ UNCHANGED <<events, files, payVars, config, subscriptions, open>>

\* storage.saveResearchPaper(event.id, event.content, metadata)
PaperStore(i) ==
  /\ AtPc(i, "EVENT", "paper:storage")
  /\ files' = files \cup {tasks[i].event.id}
  /\ Goto(i, "paper:saveEvent")
  /\ UNCHANGED <<events, papers, payVars, config, subscriptions, open, outbox>>

\* db.saveEvent, sendOK(true) and the broadcast that ends handleResearchPaper.
PaperEvent(i) ==
  /\ AtPc(i, "EVENT", "paper:saveEvent")
  /\ LET event == tasks[i].event
         msg == OKMsg(event.id, TRUE, "Paper published successfully")
     IN /\ events' = saveEventRows(event)
        /\ tasks' = [tasks EXCEPT ![i].pc = "done", ![i].reply = msg]
        /\ outbox' = broadcastEvent(sendMessage(outbox, tasks[i].conn, <<msg>>), event)
  /\ UNCHANGED <<papers, files, payVars, config, subscriptions, open>>

\* handleHighlight, handleReaction and the default branch of handleEvent:
\* db.saveEvent, sendOK(true), broadcast.
FreeSave(i) ==
  /\ AtPc(i, "EVENT", "free:saveEvent")
  /\ LET event == tasks[i].event
         msg == OKMsg(event.id, TRUE, "")
     IN /\ events' = saveEventRows(event)
        /\ tasks' = [tasks EXCEPT ![i].pc = "done", ![i].reply = msg]
        /\ outbox' = broadcastEvent(sendMessage(outbox, tasks[i].conn, <<msg>>), event)
  /\ UNCHANGED <<papers, files, payVars, config, subscriptions, open>>

\* handleCommentReply (kind 1): the fee, then storage.saveComment is called.
ReplyPrice(i) ==
  /\ AtPc(i, "EVENT", "reply:calculateCommentPrice")
  /\ tasks' = [tasks EXCEPT ![i].pc = "reply:storage",
                 ![i].price = calculateCommentPrice(calculateContentSize(tasks[i].event.content))]
  /\ UNCHANGED <<dbVars, payVars, config, subscriptions, open, outbox>>

ReplyStore(i) ==
  /\ AtPc(i, "EVENT", "reply:storage")
  /\ files' = files \cup {tasks[i].event.id}
  /\ Goto(i, "reply:saveEvent")
  /\ UNCHANGED <<events, papers, payVars, config, subscriptions, open, outbox>>

\* db.saveEvent, sendOK(true), broadcast, then the NOTICE with the fee.
ReplyEvent(i) ==
  /\ AtPc(i, "EVENT", "reply:saveEvent")
  /\ LET event == tasks[i].event
         ws == tasks[i].conn
         msg == OKMsg(event.id, TRUE, "")
     IN /\ events' = saveEventRows(event)
        /\ tasks' = [tasks EXCEPT ![i].pc = "done", ![i].reply = msg]
        /\ outbox' = sendMessage(broadcastEvent(sendMessage(outbox, ws, <<msg>>), event),
                                 ws, <<NoticeMsg(<<"Comment posted. Fee", tasks[i].price>>)>>)
  /\ UNCHANGED <<papers, files, payVars, config, subscriptions, open>>

\* handleComment (kind 1111): the price is quoted in a NOTICE, nothing is
\* tested; then storage.saveComment is called.
CommentPrice(i) ==
  /\ AtPc(i, "EVENT", "comment:calculateCommentPrice")
  /\ LET amount == calculateCommentPrice(calculateContentSize(tasks[i].event.content))
     IN /\ tasks' = [tasks EXCEPT ![i].pc = "comment:storage", ![i].price = amount]
        /\ outbox' = sendMessage(outbox, tasks[i].conn,
                                 <<NoticeMsg(<<"Comment price", amount>>)>>)
  /\ UNCHANGED <<dbVars, payVars, config, subscriptions, open>>

CommentStore(i) ==
  /\ AtPc(i, "EVENT", "comment:storage")
  /\ files' = files \cup {tasks[i].event.id}
  /\ Goto(i, "comment:saveEvent")
  /\ UNCHANGED <<events, papers, payVars, config, subscriptions, open, outbox>>

\* db.saveEvent and sendOK(true); handleComment does not broadcast.
CommentEvent(i) ==
  /\ AtPc(i, "EVENT", "comment:saveEvent")
  /\ LET event == tasks[i].event
     IN /\ events' = saveEventRows(event)
        /\ Answer(i, OKMsg(event.id, TRUE, ""))
  /\ UNCHANGED <<papers, files, payVars, config, subscriptions, open>>

----------------------------------------------------------------------------
\* REQ, CLOSE and the end of a connection

\* handleRequest up to its await: the subscription is stored first, then
\* db.getEvents(filters) is called.
ReqStart(ws, sub, filters) ==
  /\ open[ws]
  /\ subscriptions' = subscriptionsSet(subscriptions, sub, ws, filters)
  /\ tasks' = Append(tasks, ReqTask(ws, sub, filters))
  /\ UNCHANGED <<dbVars, payVars, config, open, outbox>>

\* The database runs the query of db.getEvents.
ReqQuery(i) ==
  /\ AtPc(i, "REQ", "getEvents")
  /\ \E rows \in getEvents(tasks[i].filters, DefaultQueryLimit) :
       tasks' = [tasks EXCEPT ![i].pc = "reply", ![i].rows = rows]
  /\ UNCHANGED <<dbVars, payVars, config, subscriptions, open, outbox>>

\* The messages handleRequest sends once the rows are there.
ReqReply(sub, rows) ==
  [k \in 1..Len(rows) |-> EventMsg(sub, rows[k])] \o <<EoseMsg(sub)>>

\* handleRequest after its await: the stored events, then EOSE.
ReqFinish(i) ==
  /\ AtPc(i, "REQ", "reply")
  /\ outbox' = sendMessage(outbox, tasks[i].conn, ReqReply(tasks[i].sub, tasks[i].rows))
  /\ Goto(i, "done")
  /\ UNCHANGED <<dbVars, payVars, config, subscriptions, open>>

\* handleClose(ws, subscriptionId): it has no await, so the task it leaves
\* is only the record that the message arrived.
Close(ws, sub) ==
  /\ open[ws]
  /\ subscriptions' = subscriptionsDelete(subscriptions, sub)
  /\ tasks' = Append(tasks, CloseTask(ws, sub))
  /\ UNCHANGED <<dbVars, payVars, config, open, outbox>>

\* A cleanup that deletes nothing.
cleanupNothing(subs, ws) == subs

\* cleanup(ws): every entry whose socket is ws is deleted.
cleanup(subs, ws) == SelectSeq(subs, LAMBDA s : s.ws # ws)

\* ws 'close' (or 'error'): the socket is no longer OPEN and cleanup runs.
Disconnect(ws) ==
  /\ open[ws]
  /\ open' = [open EXCEPT ![ws] = FALSE]
  /\ subscriptions' = cleanup(subscriptions, ws)
  /\ UNCHANGED <<dbVars, payVars, config, outbox, tasks>>

----------------------------------------------------------------------------
\* routes/api.ts and the payment ledger

\* POST /invoice and POST /comment-invoice: the price is computed, the
\* ledger issues an invoice with payment hash h, and saveLightningInvoice
\* stores it (INSERT OR IGNORE).
CreateInvoice(h) ==
  /\ invoices' =
       IF h \in DOMAIN invoices THEN invoices
       ELSE invoices @@ (h :> [payment_hash |-> h, amount_sats |-> calculatePrice(0),
                               paid |-> FALSE])
  /\ UNCHANGED <<dbVars, config, ledger, macaroon, checks, probe, wsVars>>

\* The payer settles invoice h on the ledger (there is none in mock mode).
LedgerSettle(h) ==
  /\ macaroon # "mock"
  /\ h \in DOMAIN invoices
  /\ h \notin ledger
  /\ ledger' = ledger \cup {h}
  /\ UNCHANGED <<dbVars, config, invoices, macaroon, checks, probe, wsVars>>

\* GET /payment/:payment_hash up to lightning.checkInvoice: the invoice row is
\* read; a missing row is answered 404.
CheckStart(h) ==
  /\ getInvoice(h) # NoRow
  /\ checks' = Append(checks, [hash |-> h, invoice |-> getInvoice(h), pc |-> "checkInvoice"])
  /\ UNCHANGED <<dbVars, config, invoices, ledger, macaroon, probe, wsVars>>

\* LightningService.checkInvoice: checkMockInvoice answers paid for every
\* hash; with LND the answer is the ledger's, or paid: false when the call
\* fails.
checkInvoice(paymentHash) ==
  IF macaroon = "mock" THEN {TRUE} ELSE {paymentHash \in ledger, FALSE}

\* GET /payment after checkInvoice: `status.paid && !invoice.paid`.
CheckStatus(j) ==
  /\ j \in 1..Len(checks)
  /\ checks[j].pc = "checkInvoice"
  /\ \E paid \in checkInvoice(checks[j].hash) :
       checks' = [checks EXCEPT ![j].pc =
                    IF paid /\ ~checks[j].invoice.paid THEN "markInvoicePaid" ELSE "done"]
  /\ UNCHANGED <<dbVars, config, invoices, ledger, macaroon, probe, wsVars>>

\* db.markInvoicePaid: UPDATE lightning_invoices SET paid = TRUE WHERE payment_hash = ?
markInvoicePaid(paymentHash) ==
  [h \in DOMAIN invoices |->
     IF h = paymentHash THEN [invoices[h] EXCEPT !.paid = TRUE] ELSE invoices[h]]

CheckMark(j) ==
  /\ j \in 1..Len(checks)
  /\ checks[j].pc = "markInvoicePaid"
  /\ invoices' = markInvoicePaid(checks[j].hash)
  /\ checks' = [checks EXCEPT ![j].pc = "done"]
  /\ UNCHANGED <<dbVars, config, ledger, macaroon, probe, wsVars>>

\* db.setConfig(key, value): INSERT OR REPLACE INTO relay_config.
SetConfig(key, value) ==
  /\ ~(Has(config, key) /\ config[key] = value)
  /\ config' = IF Has(config, key) THEN [config EXCEPT ![key] = value]
               ELSE config @@ (key :> value)
  /\ UNCHANGED <<dbVars, payVars, wsVars>>

----------------------------------------------------------------------------
\* A REQ that fails, and a broadcast that throws

\* A filter that is the JSON value null is in the list: db.getEvents and
\* eventMatchesFilters read filter.ids first, a TypeError on null.
HasNullFilter(filters) == \E k \in 1..Len(filters) : filters[k] = Null

\* filters.some(...) throws when it reaches a null filter before a filter
\* that matches.
someThrows(event, filters) ==
  \E k \in 1..Len(filters) :
    /\ filters[k] = Null
    /\ \A j \in 1..(k - 1) : filters[j] # Null /\ ~FilterMatches(event, filters[j])

\* The place in Map order of the first entry on which broadcastEvent throws,
\* 0 when it throws on none.
ThrowsAt(event) ==
  LET bad == {k \in 1..Len(subscriptions) : someThrows(event, subscriptions[k].filters)}
  IN IF bad = {} THEN 0 ELSE CHOOSE k \in bad : \A j \in bad : k <= j

\* broadcastEvent(event) up to the n-th entry, on which it throws.
broadcastUntil(box, event, n) ==
  LET hit(c) == SelectSeq(SubSeq(subscriptions, 1, n - 1),
                          LAMBDA s : s.ws = c /\ eventMatchesFilters(event, s.filters))
  IN [c \in Conns |->
        IF open[c]
        THEN box[c] \o [k \in 1..Len(hit(c)) |-> EventMsg(hit(c)[k].id, event)]
        ELSE box[c]]

\* handleReaction when the broadcast throws: the event is saved and
\* OK(true) is sent, the entries before the failing one are served, and the
\* catch block of handleEvent sends OK(false, 'Server error').
FreeSaveThrows(i) ==
  /\ AtPc(i, "EVENT", "free:saveEvent")
  /\ LET event == tasks[i].event
         ws == tasks[i].conn
         ok == OKMsg(event.id, TRUE, "")
         err == OKMsg(event.id, FALSE, "Server error")
     IN /\ ThrowsAt(event) # 0
        /\ events' = saveEventRows(event)
        /\ tasks' = [tasks EXCEPT ![i].pc = "done", ![i].reply = err]
        /\ outbox' = sendMessage(broadcastUntil(sendMessage(outbox, ws, <<ok>>),
                                                event, ThrowsAt(event)),
                                 ws, <<err>>)
  /\ UNCHANGED <<papers, files, payVars, config, subscriptions, open>>

\* handleReaction(ws, event) after db.saveEvent, with either end of the
\* broadcast.
handleReaction(i) ==
  /\ AtPc(i, "EVENT", "free:saveEvent")
  /\ IF ThrowsAt(tasks[i].event) # 0 THEN FreeSaveThrows(i) ELSE FreeSave(i)

\* db.getEvents answers: no filter of the REQ is null.
ReqQueryAnswers(i) ==
  /\ AtPc(i, "REQ", "getEvents")
  /\ ~HasNullFilter(tasks[i].filters)
  /\ ReqQuery(i)

\* The catch block of handleRequest: db.getEvents has rejected, because the
\* database failed or because a filter is null.  The entry that line 240
\* stored stays in the registry.
ReqFails(i) ==
  /\ AtPc(i, "REQ", "getEvents")
  /\ outbox' = sendMessage(outbox, tasks[i].conn, <<NoticeMsg("Error processing request")>>)
  /\ Goto(i, "done")
  /\ UNCHANGED <<dbVars, payVars, config, subscriptions, open>>

\* The calls handleResearchPaper awaits once the payment gate is passed:
\* db.saveResearchPaper, storage.saveResearchPaper, db.saveEvent.
PaperCalls == {"paper:saveResearchPaper", "paper:storage", "paper:saveEvent"}

\* The call that task i awaits rejects because its collaborator is out of
\* order: the call writes nothing, and the catch block of handleEvent sends
\* OK(false, 'Server error').
CallFails(i, pc) ==
  /\ AtPc(i, "EVENT", pc)
  /\ ServerError(i)
  /\ UNCHANGED <<dbVars, payVars, config, subscriptions, open>>

----------------------------------------------------------------------------
\* routes/admin.ts: DELETE /events/:id

\* The request after its SELECT: 404 when the event store has no such row,
\* else the three deletions follow.
DeleteTask(id, pc) == [type |-> "DELETE", id |-> id, pc |-> pc]

Without(f, id) == [k \in DOMAIN f \ {id} |-> f[k]]

DeleteStart(id) ==
  /\ tasks' = Append(tasks, DeleteTask(id, IF id \in DOMAIN events THEN "delete:events"
                                           ELSE "done"))
  /\ UNCHANGED <<dbVars, payVars, config, subscriptions, open, outbox>>

\* DELETE FROM events WHERE id = ?
DeleteEventRow(i) ==
  /\ AtPc(i, "DELETE", "delete:events")
  /\ events' = Without(events, tasks[i].id)
  /\ Goto(i, "delete:research_papers")
  /\ UNCHANGED <<papers, files, payVars, config, subscriptions, open, outbox>>

\* DELETE FROM research_papers WHERE event_id = ?
DeletePaperRow(i) ==
  /\ AtPc(i, "DELETE", "delete:research_papers")
  /\ papers' = Without(papers, tasks[i].id)
  /\ Goto(i, "delete:content")
  /\ UNCHANGED <<events, files, payVars, config, subscriptions, open, outbox>>

\* storage.deleteContent(id), then the 200 answer.
DeleteContent(i) ==
  /\ AtPc(i, "DELETE", "delete:content")
  /\ files' = files \ {tasks[i].id}
  /\ Goto(i, "done")
  /\ UNCHANGED <<events, papers, payVars, config, subscriptions, open, outbox>>

\* The statements of the route after the SELECT.
DeleteCalls == {"delete:events", "delete:research_papers", "delete:content"}

\* A statement rejects: the catch block answers 500 and the request ends
\* with the earlier deletions done.
DeleteFails(i, pc) ==
  /\ AtPc(i, "DELETE", pc)
  /\ Goto(i, "done")
  /\ UNCHANGED <<dbVars, payVars, config, subscriptions, open, outbox>>

\* The call that task i awaits never calls back.  No handler races its
\* await against a timer, so the task stays where it is: its pc becomes
\* "never", from which no action leads on.
CallHangs(i) ==
  /\ i \in 1..Len(tasks)
  /\ tasks[i].pc \notin {"done", "never"}
  /\ Goto(i, "never")
  /\ UNCHANGED <<dbVars, payVars, config, subscriptions, open, outbox>>

\* The step of task i that runs when its awaited call returns.
HandlerStep(i) ==
  \/ FreeSave(i)
  \/ ReplyPrice(i)
  \/ ReplyStore(i)
  \/ ReplyEvent(i)
  \/ ReqQuery(i)
  \/ ReqFinish(i)

----------------------------------------------------------------------------
\* handleMessage

\* A websocket message as handleMessage sees it: text that JSON.parse
\* rejects, a JSON value that cannot be destructured as an array (an object,
\* a number, null), or an array with its elements.
BadJson == [json |-> FALSE]
NotIterable == [json |-> TRUE, iterable |-> FALSE]
JsonArray(elems) == [json |-> TRUE, iterable |-> TRUE, elems |-> elems]

\* The record of a message that handleMessage answered itself.
MessageTask(ws, text) ==
  [type |-> "MESSAGE", conn |-> ws, pc |-> "done", text |-> text, mark |-> Len(outbox[ws])]

\* sendNotice(ws, text), the whole effect of handleMessage on the message.
NoticeOnly(ws, text) ==
  /\ open[ws]
  /\ tasks' = Append(tasks, MessageTask(ws, text))
  /\ outbox' = sendMessage(outbox, ws, <<NoticeMsg(text)>>)
  /\ UNCHANGED <<dbVars, payVars, config, subscriptions, open>>

\* handleMessage(ws, message) up to the first await of the handler it calls.
\* JSON.parse and the destructuring throw into the catch block.  With no
\* event, validateEventSignature(undefined) throws inside handleEvent, whose
\* catch block throws again on event.id, so the error reaches the catch block
\* of handleMessage.  With no subscription id, args[0] is undefined and is
\* passed on to handleRequest or handleClose as it is.
handleMessage(ws, message) ==
  IF ~message.json \/ ~message.iterable
  THEN NoticeOnly(ws, "Invalid message format")
  ELSE LET parsed == message.elems
           type == IF parsed = << >> THEN Undefined ELSE parsed[1]
           args == IF parsed = << >> THEN << >> ELSE Tail(parsed)
           subscriptionId == IF args = << >> THEN Undefined ELSE args[1]
       IN CASE type = "EVENT" ->
                 IF args = << >>
                 THEN NoticeOnly(ws, "Invalid message format")
                 ELSE RecvEvent(ws, args[1])
            [] type = "REQ" ->
                 ReqStart(ws, subscriptionId, IF args = << >> THEN << >> ELSE Tail(args))
            [] type = "CLOSE" -> Close(ws, subscriptionId)
            [] OTHER -> NoticeOnly(ws, <<"Unknown message type", type>>)

----------------------------------------------------------------------------
\* The review of a paper

Statuses == {"submitted", "under_review", "accepted", "rejected", "published"}

\* db.updatePaperStatus(eventId, status) at the time now: one UPDATE that
\* sets status and published_at of the row of that event, if there is one.
updatePaperStatus(eventId, status, now) ==
  IF eventId \in DOMAIN papers
  THEN [papers EXCEPT ![eventId].status = status,
                      ![eventId].published_at =
                         IF status = "published" THEN toISOString(now) ELSE Null]
  ELSE papers

\* PUT /admin/papers/:event_id/status
PutPaperStatus(eventId, status, now) ==
  /\ status \in Statuses
  /\ papers' = updatePaperStatus(eventId, status, now)
  /\ UNCHANGED <<events, files, payVars, config, wsVars>>

----------------------------------------------------------------------------
\* routes/api.ts: the endpoints that quote a price

\* POST /pricing {size_bytes, duration_years}: 400 unless size_bytes > 0,
\* else the answer is pricing.calculatePrice(size_bytes, duration_years),
\* whose amount_sats is the flat rate.  The probe keeps the answer and the
\* rate price_per_mb_year had when the call was made.
PostPricing(sizeBytes, durationYears) ==
  /\ sizeBytes > 0
  /\ probe' = [endpoint |-> "/pricing", size_bytes |-> sizeBytes,
               duration_years |-> durationYears,
               rate |-> configInt("price_per_mb_year", 1000),
               amount_sats |-> calculatePrice(sizeBytes)]
  /\ UNCHANGED <<dbVars, config, invoices, ledger, macaroon, checks, wsVars>>

\* POST /comment-invoice {event_id, size_bytes}: the comment price is
\* computed, an invoice of that amount is created and stored (INSERT OR
\* IGNORE), and the answer carries its amount.
PostCommentInvoice(h, sizeBytes) ==
  /\ sizeBytes > 0
  /\ LET amount == calculateCommentPrice(sizeBytes)
     IN /\ invoices' =
             IF h \in DOMAIN invoices THEN invoices
             ELSE invoices @@ (h :> [payment_hash |-> h, amount_sats |-> amount,
                                     paid |-> FALSE])
        /\ probe' = [endpoint |-> "/comment-invoice", size_bytes |-> sizeBytes,
                     rate |-> configInt("price_per_comment_mb", 100),
                     amount_sats |-> amount]
  /\ UNCHANGED <<dbVars, config, ledger, macaroon, checks, wsVars>>

\* POST /invoice that quotes the price the relay had at construction
\* instead of reading it from relay_config.
PostInvoiceStale(h, sizeBytes, durationYears) ==
  /\ sizeBytes > 0
  /\ invoices' =
       IF h \in DOMAIN invoices THEN invoices
       ELSE invoices @@ (h :> [payment_hash |-> h, amount_sats |-> DefaultFlatRate,
                               paid |-> FALSE])
  /\ probe' = [endpoint |-> "/invoice", size_bytes |-> sizeBytes,
               duration_years |-> durationYears, payment_hash |-> h,
               amount_sats |-> DefaultFlatRate]
  /\ UNCHANGED <<dbVars, config, ledger, macaroon, checks, wsVars>>

\* POST /invoice {event_id, size_bytes, duration_years = 1}: 400 unless
\* size_bytes is truthy; else pricing.calculatePrice(size_bytes,
\* duration_years) gives the amount, lightning.createInvoice issues an
\* invoice of that amount with payment hash h, saveLightningInvoice stores it
\* (INSERT OR IGNORE) and the answer carries the hash and the amount.
PostInvoice(h, sizeBytes, durationYears) ==
  /\ sizeBytes > 0
  /\ LET amount == calculatePrice(sizeBytes)
     IN /\ invoices' =
             IF h \in DOMAIN invoices THEN invoices
             ELSE invoices @@ (h :> [payment_hash |-> h, amount_sats |-> amount,
                                     paid |-> FALSE])
        /\ probe' = [endpoint |-> "/invoice", size_bytes |-> sizeBytes,
                     duration_years |-> durationYears, payment_hash |-> h,
                     amount_sats |-> amount]
  /\ UNCHANGED <<dbVars, config, ledger, macaroon, checks, wsVars>>

----------------------------------------------------------------------------
\* One application of eventMatchesFilters to the probe's event and filters.
ApplyMatcher ==
  /\ Has(probe, "filters")
  /\ ~probe.applied
  /\ probe' = [probe EXCEPT !.applied = TRUE,
                 !.result = eventMatchesFilters(probe.event, probe.filters)]
  /\ UNCHANGED <<dbVars, config, invoices, ledger, macaroon, checks, wsVars>>

----------------------------------------------------------------------------
\* Inputs

MkEvent(pubkey, created_at, kind, tags, content) ==
  LET body == [pubkey |-> pubkey, created_at |-> created_at, kind |-> kind,
               tags |-> tags, content |-> content, sig |-> "sig"]
  IN [id |-> getEventHash(body)] @@ body

PaidWith(h) == << <<"payment_hash", h>> >>

evReaction == MkEvent("p1", 1, KindReaction, << >>, "a")
evReply == MkEvent("p2", 2, KindReply, << <<"e", "x">> >>, "a")
evComment == MkEvent("p1", 2, KindComment, << >>, "a")
paperNoRef == MkEvent("p1", 1, KindPaper, << >>, "a")
paperRef == MkEvent("p1", 1, KindPaper, PaidWith("h1"), "a")
paperBadRef == MkEvent("p1", 1, KindPaper, PaidWith("h2"), "a")
paperLong == MkEvent("p1", 1, KindPaper, PaidWith("h1"), "abc")
\* Events whose stated id is not the hash of their fields.
forgedFree == [evReaction EXCEPT !.content = "b"]
forgedPaper == [paperRef EXCEPT !.id = evReaction.id]

CoreEvents == {evReaction, evReply, evComment, forgedFree, forgedPaper}
PayEvents == {paperNoRef, paperRef, paperBadRef, paperLong}

fAll == << >>
fNone == [ids |-> {}]
fReaction == [kinds |-> {KindReaction}]
fAuthor1 == [authors |-> {"p1"}]

CoreFilters == {<<fAll>>, <<fReaction, fAuthor1>>, <<fNone>>}

\* REQ inputs for the replay of several stored events.
fLimit1 == [limit |-> 1]
ReplayEvents == {evReaction, evReply, evComment}
ReplayFilters == {<<fAll>>, <<fLimit1>>}

\* The values new Date() takes in status updates.
ClockTimes == {2000, 3000}

\* REQ inputs for connections that come and go.
ConnReqs ==
  {<<"A", "s1", <<fAll>>>>, <<"A", "s1", <<fNone>>>>, <<"B", "s2", <<fAll>>>>}

\* The payment hashes the invoice endpoints hand out; "h2" names no invoice.
IssuedHashes == {"h1"}

\* The writes PUT /admin/pricing makes to relay_config.  No code writes
\* flat_rate_sats, the one key the price is read from.
ConfigWrites ==
  {<<"price_per_mb_year", 2000>>, <<"max_content_size", 2>>}

\* The flat rate the operator puts into relay_config: flat_rate_sats is the
\* key calculatePrice reads, and its row comes from outside the code.
OperatorFlatRate == 2

\* The papers that meet the payment gate.
GateEvents == {paperNoRef, paperRef, paperBadRef}

MatchEvents ==
  {MkEvent(p, t, k, << >>, "a") : p \in Pubkeys, t \in 0..2, k \in {KindReaction, KindComment}}

MatchFilters ==
  {fAll, fNone, [ids |-> {evReaction.id}], fAuthor1, [authors |-> {}], fReaction,
   [kinds |-> {}], [since |-> 0], [since |-> 2], [until |-> 0], [until |-> 1],
   [since |-> 1, until |-> 1], [kinds |-> {KindReaction}, authors |-> {"p2"}]}

MatchFilterLists ==
  {<< >>} \cup {<<f>> : f \in MatchFilters} \cup {<<f, g>> : f, g \in MatchFilters}

\* The rows db.initialize() inserts into relay_config.
DefaultConfig ==
  [price_per_mb_year |-> 1000, price_per_comment_mb |-> 100,
   max_content_size |-> DefaultMaxContentSize]

\* The relay after construction and initialize(), with an empty database.
Fresh ==
  /\ events = << >>
  /\ papers = << >>
  /\ files = {}
  /\ invoices = << >>
  /\ config = DefaultConfig
  /\ ledger = {}
  /\ subscriptions = << >>
  /\ open = [c \in Conns |-> TRUE]
  /\ outbox = [c \in Conns |-> << >>]
  /\ tasks = << >>
  /\ checks = << >>

\* LightningService.initialize(): mock mode when no macaroon can be read.
Init ==
  /\ Fresh
  /\ macaroon \in {"mock", "lnd"}
  /\ probe = NoRow

\* The websocket side of the relay with the free kinds and the comment kind.
InitCore == Init /\ macaroon = "mock"

NextCore ==
  \/ \E ws \in Conns, event \in CoreEvents : Len(tasks) < MaxTasks /\ RecvEvent(ws, event)
  \/ \E i \in 1..Len(tasks) : FreeSave(i)
  \/ \E i \in 1..Len(tasks) : ReplyPrice(i)
  \/ \E i \in 1..Len(tasks) : ReplyStore(i)
  \/ \E i \in 1..Len(tasks) : ReplyEvent(i)
  \/ \E i \in 1..Len(tasks) : CommentPrice(i)
  \/ \E i \in 1..Len(tasks) : CommentStore(i)
  \/ \E i \in 1..Len(tasks) : CommentEvent(i)
  \/ \E ws \in Conns, sub \in SubIds, filters \in CoreFilters :
       Len(tasks) < MaxTasks /\ ReqStart(ws, sub, filters)
  \/ \E i \in 1..Len(tasks) : ReqQuery(i)
  \/ \E i \in 1..Len(tasks) : ReqFinish(i)
  \/ \E ws \in Conns, sub \in SubIds : Len(tasks) < MaxTasks /\ Close(ws, sub)

Spec == InitCore /\ [][NextCore]_vars

\* The priced kinds with the invoice endpoints, on one connection.
NextPay ==
  \/ \E event \in PayEvents : Len(tasks) < MaxPayTasks /\ RecvEvent("A", event)
  \/ \E i \in 1..Len(tasks) : PaperSize(i)
  \/ \E i \in 1..Len(tasks) : PaperPrice(i)
  \/ \E i \in 1..Len(tasks) : PaperInvoice(i)
  \/ \E i \in 1..Len(tasks) : PaperRecord(i)
  \/ \E i \in 1..Len(tasks) : PaperStore(i)
  \/ \E i \in 1..Len(tasks) : PaperEvent(i)
  \/ \E h \in IssuedHashes : CreateInvoice(h)
  \/ \E h \in IssuedHashes : LedgerSettle(h)
  \/ \E h \in Hashes : Len(checks) < MaxChecks /\ CheckStart(h)
  \/ \E j \in 1..Len(checks) : CheckStatus(j)
  \/ \E j \in 1..Len(checks) : CheckMark(j)
  \/ \E w \in ConfigWrites : SetConfig(w[1], w[2])

SpecPay == Init /\ [][NextPay]_vars

\* The filter matcher as a pure function of an event and a filter list.
InitMatch ==
  /\ Fresh
  /\ macaroon = "mock"
  /\ probe \in {[event |-> e, filters |-> fs, applied |-> FALSE, result |-> FALSE] :
                  e \in MatchEvents, fs \in MatchFilterLists}

SpecMatch == InitMatch /\ [][ApplyMatcher]_vars

\* One connection that stores events and replays them with REQ.
NextReplay ==
  \/ \E event \in ReplayEvents : Len(tasks) < MaxReplayTasks /\ RecvEvent("A", event)
  \/ \E i \in 1..Len(tasks) : FreeSave(i)
  \/ \E i \in 1..Len(tasks) : ReplyPrice(i)
  \/ \E i \in 1..Len(tasks) : ReplyStore(i)
  \/ \E i \in 1..Len(tasks) : ReplyEvent(i)
  \/ \E i \in 1..Len(tasks) : CommentPrice(i)
  \/ \E i \in 1..Len(tasks) : CommentStore(i)
  \/ \E i \in 1..Len(tasks) : CommentEvent(i)
  \/ \E filters \in ReplayFilters :
       Len(tasks) < MaxReplayTasks /\ ReqStart("A", "s1", filters)
  \/ \E i \in 1..Len(tasks) : ReqQuery(i)
  \/ \E i \in 1..Len(tasks) : ReqFinish(i)

SpecReplay == InitCore /\ [][NextReplay]_vars

\* Connection A subscribes twice under one name, submits and closes while
\* connection B holds a subscription of its own.
NextConn ==
  \/ Len(tasks) < MaxConnTasks /\ RecvEvent("A", evReaction)
  \/ \E i \in 1..Len(tasks) : FreeSave(i)
  \/ \E r \in ConnReqs : Len(tasks) < MaxConnTasks /\ ReqStart(r[1], r[2], r[3])
  \/ \E i \in 1..Len(tasks) : ReqQuery(i)
  \/ \E i \in 1..Len(tasks) : ReqFinish(i)
  \/ Disconnect("A")

SpecConn == InitCore /\ [][NextConn]_vars

\* A paid paper is submitted and its record is reviewed.
NextReview ==
  \/ Len(tasks) < MaxPayTasks /\ RecvEvent("A", paperRef)
  \/ \E i \in 1..Len(tasks) : PaperSize(i)
  \/ \E i \in 1..Len(tasks) : PaperPrice(i)
  \/ \E i \in 1..Len(tasks) : PaperInvoice(i)
  \/ \E i \in 1..Len(tasks) : PaperRecord(i)
  \/ \E i \in 1..Len(tasks) : PaperStore(i)
  \/ \E i \in 1..Len(tasks) : PaperEvent(i)
  \/ \E h \in IssuedHashes : CreateInvoice(h)
  \/ \E h \in IssuedHashes : Len(checks) < MaxChecks /\ CheckStart(h)
  \/ \E j \in 1..Len(checks) : CheckStatus(j)
  \/ \E j \in 1..Len(checks) : CheckMark(j)
  \/ \E status \in Statuses, now \in ClockTimes :
       PutPaperStatus(paperRef.id, status, now)

SpecReview == InitCore /\ [][NextReview]_vars

\* One invoice is issued, settled and checked by concurrent requests while
\* a paper that refers to it is submitted.
NextInvoice ==
  \/ Len(tasks) < MaxInvoiceTasks /\ RecvEvent("A", paperRef)
  \/ \E i \in 1..Len(tasks) : PaperSize(i)
  \/ \E i \in 1..Len(tasks) : PaperPrice(i)
  \/ \E i \in 1..Len(tasks) : PaperInvoice(i)
  \/ \E i \in 1..Len(tasks) : PaperRecord(i)
  \/ \E i \in 1..Len(tasks) : PaperStore(i)
  \/ \E i \in 1..Len(tasks) : PaperEvent(i)
  \/ \E h \in IssuedHashes : CreateInvoice(h)
  \/ \E h \in IssuedHashes : LedgerSettle(h)
  \/ \E h \in IssuedHashes : Len(checks) < MaxInvoiceChecks /\ CheckStart(h)
  \/ \E j \in 1..Len(checks) : CheckStatus(j)
  \/ \E j \in 1..Len(checks) : CheckMark(j)

SpecInvoice == Init /\ [][NextInvoice]_vars

\* Papers meet the payment gate while the operator raises the flat rate
\* and connection B holds a subscription that matches them.
NextGate ==
  \/ \E event \in GateEvents : Len(tasks) < MaxGateTasks /\ RecvEvent("A", event)
  \/ \E i \in 1..Len(tasks) : PaperSize(i)
  \/ \E i \in 1..Len(tasks) : PaperPrice(i)
  \/ \E i \in 1..Len(tasks) : PaperInvoice(i)
  \/ \E i \in 1..Len(tasks) : PaperRecord(i)
  \/ \E i \in 1..Len(tasks) : PaperStore(i)
  \/ \E i \in 1..Len(tasks) : PaperEvent(i)
  \/ \E h \in IssuedHashes : CreateInvoice(h)
  \/ \E h \in IssuedHashes : Len(checks) < MaxChecks /\ CheckStart(h)
  \/ \E j \in 1..Len(checks) : CheckStatus(j)
  \/ \E j \in 1..Len(checks) : CheckMark(j)
  \/ SetConfig("flat_rate_sats", OperatorFlatRate)
  \/ Len(tasks) < MaxGateTasks /\ ReqStart("B", "s1", <<fAll>>)
  \/ \E i \in 1..Len(tasks) : ReqQuery(i)
  \/ \E i \in 1..Len(tasks) : ReqFinish(i)

SpecGate == InitCore /\ [][NextGate]_vars

\* A comment of three bytes, above the limit of ConfigWrites.
commentLong == MkEvent("p1", 2, KindComment, << >>, "abc")

\* Submissions of the kinds that have a price, short and long.
SizeEvents == {paperRef, paperLong, evComment, commentLong}

\* The operator sets max_content_size before the first message arrives;
\* then papers and comments are submitted.
NextSize ==
  \/ tasks = << >> /\ SetConfig("max_content_size", 2)
  \/ \E event \in SizeEvents : Len(tasks) < MaxSizeTasks /\ RecvEvent("A", event)
  \/ \E i \in 1..Len(tasks) : PaperSize(i)
  \/ \E i \in 1..Len(tasks) : PaperPrice(i)
  \/ \E i \in 1..Len(tasks) : PaperInvoice(i)
  \/ \E i \in 1..Len(tasks) : CommentPrice(i)
  \/ \E i \in 1..Len(tasks) : CommentStore(i)
  \/ \E i \in 1..Len(tasks) : CommentEvent(i)

SpecSize == InitCore /\ [][NextSize]_vars

\* The messages connection A sends: five that lack the required structure
\* and three that have it.
RawMessages ==
  {BadJson, NotIterable, JsonArray(<<"HELLO">>), JsonArray(<<"EVENT">>),
   JsonArray(<<"REQ">>), JsonArray(<<"EVENT", evReaction>>),
   JsonArray(<<"REQ", "s1", fAll>>), JsonArray(<<"CLOSE", "s1">>)}

NextMsg ==
  \/ \E message \in RawMessages : Len(tasks) < MaxMsgTasks /\ handleMessage("A", message)
  \/ \E i \in 1..Len(tasks) : FreeSave(i)
  \/ \E i \in 1..Len(tasks) : ReqQuery(i)
  \/ \E i \in 1..Len(tasks) : ReqFinish(i)

SpecMsg == InitCore /\ [][NextMsg]_vars

\* The filter lists connection B subscribes with: one filter that matches
\* everything, or one that is null.
FailFilters == {<<fAll>>, <<Null>>}

\* B subscribes while the query may fail; A submits a reaction.
NextFail ==
  \/ \E filters \in FailFilters : Len(tasks) < MaxFailTasks /\ ReqStart("B", "s1", filters)
  \/ \E i \in 1..Len(tasks) : ReqQueryAnswers(i)
  \/ \E i \in 1..Len(tasks) : ReqFails(i)
  \/ \E i \in 1..Len(tasks) : ReqFinish(i)
  \/ Len(tasks) < MaxFailTasks /\ RecvEvent("A", evReaction)
  \/ \E i \in 1..Len(tasks) : handleReaction(i)

SpecFail == InitCore /\ [][NextFail]_vars

\* Task i is the first submission of the run.
FirstSubmission(i) ==
  /\ i \in 1..Len(tasks)
  /\ \A k \in 1..(i - 1) : tasks[k].type # "EVENT"

\* The paid paper is submitted, one submission after the other, while B is
\* subscribed to everything; the database or the content store is out of
\* order during the first submission and works from then on.
NextStore ==
  \/ /\ Len(tasks) < MaxStoreTasks
     /\ \A i \in 1..Len(tasks) : tasks[i].pc = "done"
     /\ RecvEvent("A", paperRef)
  \/ \E i \in 1..Len(tasks) : PaperSize(i)
  \/ \E i \in 1..Len(tasks) : PaperPrice(i)
  \/ \E i \in 1..Len(tasks) : PaperInvoice(i)
  \/ \E i \in 1..Len(tasks) : PaperRecord(i)
  \/ \E i \in 1..Len(tasks) : PaperStore(i)
  \/ \E i \in 1..Len(tasks) : PaperEvent(i)
  \/ \E i \in 1..Len(tasks), pc \in PaperCalls : FirstSubmission(i) /\ CallFails(i, pc)
  \/ \E h \in IssuedHashes : CreateInvoice(h)
  \/ \E h \in IssuedHashes : Len(checks) < MaxChecks /\ CheckStart(h)
  \/ \E j \in 1..Len(checks) : CheckStatus(j)
  \/ \E j \in 1..Len(checks) : CheckMark(j)
  \/ tasks = << >> /\ ReqStart("B", "s1", <<fAll>>)
  \/ \E i \in 1..Len(tasks) : ReqQuery(i)
  \/ \E i \in 1..Len(tasks) : ReqFinish(i)

SpecStore == InitCore /\ [][NextStore]_vars

\* The paid paper is submitted and deleted by the administrator, and any
\* call to the database or the content store may fail.
NextDelete ==
  \/ Len(tasks) < MaxDeleteTasks /\ RecvEvent("A", paperRef)
  \/ \E i \in 1..Len(tasks) : PaperSize(i)
  \/ \E i \in 1..Len(tasks) : PaperPrice(i)
  \/ \E i \in 1..Len(tasks) : PaperInvoice(i)
  \/ \E i \in 1..Len(tasks) : PaperRecord(i)
  \/ \E i \in 1..Len(tasks) : PaperStore(i)
  \/ \E i \in 1..Len(tasks) : PaperEvent(i)
  \/ \E i \in 1..Len(tasks), pc \in PaperCalls : CallFails(i, pc)
  \/ \E h \in IssuedHashes : CreateInvoice(h)
  \/ \E h \in IssuedHashes : Len(checks) < MaxChecks /\ CheckStart(h)
  \/ \E j \in 1..Len(checks) : CheckStatus(j)
  \/ \E j \in 1..Len(checks) : CheckMark(j)
  \/ Len(tasks) < MaxDeleteTasks /\ DeleteStart(paperRef.id)
  \/ \E i \in 1..Len(tasks) : DeleteEventRow(i)
  \/ \E i \in 1..Len(tasks) : DeletePaperRow(i)
  \/ \E i \in 1..Len(tasks) : DeleteContent(i)
  \/ \E i \in 1..Len(tasks), pc \in DeleteCalls : DeleteFails(i, pc)

SpecDelete == InitCore /\ [][NextDelete]_vars

\* A reaction whose kind is the JSON string "7"; its id is the hash of the
\* fields as they were sent.
evTextKind ==
  LET body == [pubkey |-> "p2", created_at |-> 3, kind |-> KindReaction,
               kindAsText |-> TRUE, tags |-> << >>, content |-> "a", sig |-> "sig"]
  IN [id |-> getEventHash(body)] @@ body

RoundEvents == {evReaction, forgedFree, evTextKind}

\* A submits events that are stored and broadcast; B subscribes to
\* everything and gets the stored events back.
NextRound ==
  \/ \E event \in RoundEvents : Len(tasks) < MaxRoundTasks /\ RecvEvent("A", event)
  \/ \E i \in 1..Len(tasks) : FreeSave(i)
  \/ Len(tasks) < MaxRoundTasks /\ ReqStart("B", "s1", <<fAll>>)
  \/ \E i \in 1..Len(tasks) : ReqQuery(i)
  \/ \E i \in 1..Len(tasks) : ReqFinish(i)

SpecRound == InitCore /\ [][NextRound]_vars

\* The events whose handlers take one step (kind 7) and three (kind 1).
OrderEvents == {evReaction, evReply}

\* A subscribes to everything before it submits, then submits events whose
\* handlers run side by side.
NextOrder ==
  \/ tasks = << >> /\ ReqStart("A", "s1", <<fAll>>)
  \/ \E i \in 1..Len(tasks) : ReqQuery(i)
  \/ \E i \in 1..Len(tasks) : ReqFinish(i)
  \/ \E event \in OrderEvents : Len(tasks) < MaxOrderTasks /\ RecvEvent("A", event)
  \/ \E i \in 1..Len(tasks) : FreeSave(i)
  \/ \E i \in 1..Len(tasks) : ReplyPrice(i)
  \/ \E i \in 1..Len(tasks) : ReplyStore(i)
  \/ \E i \in 1..Len(tasks) : ReplyEvent(i)

SpecOrder == InitCore /\ [][NextOrder]_vars

\* 1024 * 1024 bytes, the unit of the rates.
MiB == 1024 * 1024

\* Sizes, durations and rates for the quotes: below, at and above one MiB.
QuoteSizes == {1, 2048, MiB, MiB + 1, 3 * MiB}
QuoteYears == {1, 2}
QuoteRates == {0, 100, 1000}

\* The administrator sets the two rates with PUT /pricing while clients ask
\* for quotes.
NextPrice ==
  \/ \E rate \in QuoteRates : SetConfig("price_per_mb_year", rate)
  \/ \E rate \in QuoteRates : SetConfig("price_per_comment_mb", rate)
  \/ \E sizeBytes \in QuoteSizes, durationYears \in QuoteYears :
       PostPricing(sizeBytes, durationYears)
  \/ \E sizeBytes \in QuoteSizes : PostCommentInvoice("h1", sizeBytes)

SpecPrice == InitCore /\ [][NextPrice]_vars

\* The filter {"#e": ["x"]}: events that refer to the event x.
fTagE == ("#e" :> {"x"})

\* A reply that carries the tag ["e", "x"] and a reaction without tags.
TagEvents == {evReply, evReaction}

\* B subscribes to the events that refer to x; A submits events.
NextTag ==
  \/ Len(tasks) < MaxTagTasks /\ ReqStart("B", "s1", <<fTagE>>)
  \/ \E i \in 1..Len(tasks) : ReqQuery(i)
  \/ \E i \in 1..Len(tasks) : ReqFinish(i)
  \/ \E event \in TagEvents : Len(tasks) < MaxTagTasks /\ RecvEvent("A", event)
  \/ \E i \in 1..Len(tasks) : FreeSave(i)
  \/ \E i \in 1..Len(tasks) : ReplyPrice(i)
  \/ \E i \in 1..Len(tasks) : ReplyStore(i)
  \/ \E i \in 1..Len(tasks) : ReplyEvent(i)

SpecTag == InitCore /\ [][NextTag]_vars

\* A submits reactions and replies and subscribes, and any awaited call
\* may fail to return.  A call that does return resumes its handler: the
\* event loop runs every continuation that is ready.
NextHang ==
  \/ \E event \in OrderEvents : Len(tasks) < MaxHangTasks /\ RecvEvent("A", event)
  \/ Len(tasks) < MaxHangTasks /\ ReqStart("A", "s1", <<fAll>>)
  \/ \E i \in 1..Len(tasks) : HandlerStep(i)
  \/ \E i \in 1..Len(tasks) : CallHangs(i)

FairHang == \A i \in 1..MaxHangTasks : WF_vars(HandlerStep(i))

SpecHang == InitCore /\ [][NextHang]_vars /\ FairHang

\* The papers a price is quoted for; both name invoice h1.
QuoteEvents == {paperRef, paperLong}

\* The operator sets the flat rate before the first quote and the size limit
\* before the first submission; then an invoice is requested for a paper's
\* content size with duration 1, its payment is checked, and the papers are
\* submitted.
NextQuote ==
  \/ tasks = << >> /\ invoices = << >> /\ SetConfig("flat_rate_sats", OperatorFlatRate)
  \/ tasks = << >> /\ SetConfig("max_content_size", 2)
  \/ \E h \in IssuedHashes, event \in QuoteEvents :
       PostInvoice(h, calculateContentSize(event.content), 1)
  \/ \E h \in IssuedHashes : Len(checks) < MaxChecks /\ CheckStart(h)
  \/ \E j \in 1..Len(checks) : CheckStatus(j)
  \/ \E j \in 1..Len(checks) : CheckMark(j)
  \/ \E event \in QuoteEvents : Len(tasks) < MaxQuoteTasks /\ RecvEvent("A", event)
  \/ \E i \in 1..Len(tasks) : PaperSize(i)
  \/ \E i \in 1..Len(tasks) : PaperPrice(i)
  \/ \E i \in 1..Len(tasks) : PaperInvoice(i)
  \/ \E i \in 1..Len(tasks) : PaperRecord(i)
  \/ \E i \in 1..Len(tasks) : PaperStore(i)
  \/ \E i \in 1..Len(tasks) : PaperEvent(i)

SpecQuote == InitCore /\ [][NextQuote]_vars

\* The values the operator gives flat_rate_sats in relay_config.
OperatorRates == {1, 2}

\* The operator changes the flat rate at any moment while an invoice is
\* quoted for the paid paper, its payment is checked and the paper is
\* submitted.
NextPaid ==
  \/ \E rate \in OperatorRates : SetConfig("flat_rate_sats", rate)
  \/ \E h \in IssuedHashes : PostInvoice(h, calculateContentSize(paperRef.content), 1)
  \/ \E h \in IssuedHashes : Len(checks) < MaxChecks /\ CheckStart(h)
  \/ \E j \in 1..Len(checks) : CheckStatus(j)
  \/ \E j \in 1..Len(checks) : CheckMark(j)
  \/ Len(tasks) < MaxPaidTasks /\ RecvEvent("A", paperRef)
  \/ \E i \in 1..Len(tasks) : PaperSize(i)
  \/ \E i \in 1..Len(tasks) : PaperPrice(i)
  \/ \E i \in 1..Len(tasks) : PaperInvoice(i)
  \/ \E i \in 1..Len(tasks) : PaperRecord(i)
  \/ \E i \in 1..Len(tasks) : PaperStore(i)
  \/ \E i \in 1..Len(tasks) : PaperEvent(i)

SpecPaid == InitCore /\ [][NextPaid]_vars

\* No earlier message of the run carried this event.
NotYetSubmitted(event) ==
  \A k \in 1..Len(tasks) : tasks[k].type = "EVENT" => tasks[k].event.id # event.id

\* B subscribes to everything, once, while A submits a reaction and a
\* reply, each once; the handlers run side by side.
NextOverlap ==
  \/ /\ Len(tasks) < MaxOverlapTasks
     /\ \A k \in 1..Len(tasks) : tasks[k].type # "REQ"
     /\ ReqStart("B", "s1", <<fAll>>)
  \/ \E i \in 1..Len(tasks) : ReqQuery(i)
  \/ \E i \in 1..Len(tasks) : ReqFinish(i)
  \/ \E event \in OrderEvents :
       /\ Len(tasks) < MaxOverlapTasks
       /\ NotYetSubmitted(event)
       /\ RecvEvent("A", event)
  \/ \E i \in 1..Len(tasks) : FreeSave(i)
  \/ \E i \in 1..Len(tasks) : ReplyPrice(i)
  \/ \E i \in 1..Len(tasks) : ReplyStore(i)
  \/ \E i \in 1..Len(tasks) : ReplyEvent(i)

SpecOverlap == InitCore /\ [][NextOverlap]_vars

----------------------------------------------------------------------------
\* Vocabulary of the properties

\* The matching relation of the specification: a filter is satisfied when
\* every constraint present in it holds, a filter list when some filter is.
Satisfies(event, filter) ==
  /\ Has(filter, "ids") => event.id \in filter.ids
  /\ Has(filter, "authors") => event.pubkey \in filter.authors
  /\ Has(filter, "kinds") => event.kind \in filter.kinds
  /\ Has(filter, "since") => event.created_at >= filter.since
  /\ Has(filter, "until") => event.created_at <= filter.until

Matches(event, filters) == \E k \in 1..Len(filters) : Satisfies(event, filters[k])

IsEventTask(i) == i \in 1..Len(tasks) /\ tasks[i].type = "EVENT"
IsReqTask(i) == i \in 1..Len(tasks) /\ tasks[i].type = "REQ"

\* The handler of task i ends in this step.
Ends(i) == tasks[i].pc # "done" /\ tasks'[i].pc = "done"

\* The handler of EVENT task i ends in this step with OK(true).
Admits(i) == IsEventTask(i) /\ Ends(i) /\ tasks'[i].reply.ok

\* The messages this step sends on connection c.
Sent(c) == SubSeq(outbox'[c], Len(outbox[c]) + 1, Len(outbox'[c]))

\* The messages connection c got after its first n.
After(c, n) == SubSeq(outbox[c], n + 1, Len(outbox[c]))

PaymentRef(event) == getTagValue(event.tags, "payment_hash")

\* The payment gate of the specification for a required amount.
GateOpen(event, amount) ==
  /\ TruthyStr(PaymentRef(event))
  /\ PaymentRef(event) \in DOMAIN invoices
  /\ invoices[PaymentRef(event)].paid
  /\ invoices[PaymentRef(event)].amount_sats >= amount

----------------------------------------------------------------------------
\* C1: an EVENT whose stated id is not the hash of its fields is answered
\* OK(false, Invalid signature) in the step that receives it and its handler
\* ends there: the event store, the paper records, the content store and the
\* registry are unchanged, the only message sent is that OK, and a handler
\* that has ended never acts again.
C1_ForgedIdRejected ==
  [][/\ (/\ Len(tasks') = Len(tasks) + 1
         /\ tasks'[Len(tasks')].type = "EVENT"
         /\ tasks'[Len(tasks')].event.id # getEventHash(tasks'[Len(tasks')].event))
        => LET t == tasks'[Len(tasks')]
               msg == OKMsg(t.event.id, FALSE, "Invalid signature")
           IN /\ t.pc = "done"
              /\ t.reply = msg
              /\ outbox' = [outbox EXCEPT ![t.conn] = Append(@, msg)]
              /\ UNCHANGED <<events, papers, files, subscriptions>>
     /\ \A i \in 1..Len(tasks) : tasks[i].pc = "done" => tasks'[i] = tasks[i]
    ]_vars

\* A forged event of the priced kind was rejected while a subscription whose
\* filters match it was registered.
C1_Witness ==
  \E i \in 1..Len(tasks) :
    /\ IsEventTask(i)
    /\ tasks[i].event.id # getEventHash(tasks[i].event)
    /\ tasks[i].event.kind = KindPaper
    /\ tasks[i].pc = "done"
    /\ OKMsg(tasks[i].event.id, FALSE, "Invalid signature") \in Range(outbox[tasks[i].conn])
    /\ \E s \in Range(subscriptions) : Matches(tasks[i].event, s.filters)

\* C2: a long-form event with a valid hash and content within the size
\* limit is admitted (OK(true), record and event stored) if and only if it
\* carries a payment reference to an existing, paid invoice whose amount is
\* at least the price computed for it.
C2_PaymentGate ==
  [][\A i \in 1..Len(tasks) :
       (/\ IsEventTask(i)
        /\ Ends(i)
        /\ tasks[i].event.kind = KindPaper
        /\ tasks'[i].reply.reason # "Content too large")
       => /\ tasks'[i].reply.ok <=> GateOpen(tasks[i].event, tasks'[i].price)
          /\ tasks'[i].reply.ok =>
               /\ tasks[i].event.id \in DOMAIN events'
               /\ tasks[i].event.id \in DOMAIN papers'
    ]_vars

\* C3: a comment event (kind 1111) is answered OK(true) only when it
\* references a paid invoice of at least the comment price, and without a
\* payment reference it is rejected with 'Payment required'.
C3_CommentGate ==
  \A i \in 1..Len(tasks) :
    (/\ IsEventTask(i)
     /\ tasks[i].event.kind = KindComment
     /\ tasks[i].event.id = getEventHash(tasks[i].event)
     /\ tasks[i].pc = "done")
    => /\ tasks[i].reply.ok => GateOpen(tasks[i].event, tasks[i].price)
       /\ ~TruthyStr(PaymentRef(tasks[i].event)) =>
            /\ ~tasks[i].reply.ok
            /\ tasks[i].reply.reason = "Payment required"
            /\ tasks[i].event.id \notin DOMAIN events

\* C4: an invoice whose paid flag is set is one the ledger has settled.
C4_PaidMeansSettled ==
  \A h \in DOMAIN invoices : invoices[h].paid => h \in ledger

\* C5: a valid event that was already admitted is answered OK(true) when it
\* is submitted again with its content still within the size limit, and the
\* resubmission changes neither the event rows nor the paper records.
C5_ResubmissionAdmitted ==
  [][\A i \in 1..Len(tasks) :
       (/\ IsEventTask(i)
        /\ Ends(i)
        /\ tasks'[i].reply.reason # "Content too large"
        /\ \E j \in 1..Len(tasks) :
             /\ j # i
             /\ IsEventTask(j)
             /\ tasks[j].event = tasks[i].event
             /\ tasks[j].pc = "done"
             /\ tasks[j].reply.ok)
       => /\ tasks'[i].reply.ok
          /\ events' = events
          /\ papers' = papers
    ]_vars

\* C6: the step that answers a submission OK(true) sends the event to every
\* subscription then registered on an open connection whose filters match.
C6_AdmittedIsBroadcast ==
  [][\A i \in 1..Len(tasks) :
       Admits(i) =>
         \A k \in 1..Len(subscriptions) :
           LET s == subscriptions[k]
           IN (open[s.ws] /\ Matches(tasks[i].event, s.filters))
              => EventMsg(s.id, tasks[i].event) \in Range(Sent(s.ws))
    ]_vars

C8_MatcherIsSpecified ==
  (Has(probe, "filters") /\ probe.applied)
    => (probe.result <=> Matches(probe.event, probe.filters))

\* C9: while a REQ has not been answered, its connection has received no
\* EVENT message under its subscription name since the REQ arrived: the
\* stored events and the EOSE come first, live events after them.
C9_NoLiveBeforeEose ==
  \A i \in 1..Len(tasks) :
    (IsReqTask(i) /\ tasks[i].pc # "done")
    => \A m \in Range(After(tasks[i].conn, tasks[i].mark)) :
         ~(m.type = "EVENT" /\ m.sub = tasks[i].sub)

\* C10: a REQ is answered by exactly one EOSE with its subscription name,
\* sent last; and when no stored event matches its filters, no EVENT
\* message under that name has reached the connection since the REQ arrived.
C10_EoseAndEmptyReplay ==
  [][\A i \in 1..Len(tasks) :
       (IsReqTask(i) /\ Ends(i))
       => LET c == tasks[i].conn
              sub == tasks[i].sub
              sent == Sent(c)
              got == SubSeq(outbox'[c], tasks[i].mark + 1, Len(outbox'[c]))
          IN /\ Len(sent) >= 1
             /\ sent[Len(sent)] = EoseMsg(sub)
             /\ \A k \in 1..(Len(sent) - 1) : sent[k].type # "EOSE"
             /\ (\A row \in Range(events) : ~Matches(row, tasks[i].filters))
                  => \A m \in Range(got) : ~(m.type = "EVENT" /\ m.sub = sub)
    ]_vars

\* C11: between two EOSE messages that a connection received for the same
\* subscription name, the connection registered that name again (a REQ of
\* that connection and name arrived after the first EOSE and before the
\* second).
C11_NoDuplicateEose ==
  \A c \in Conns :
    \A k, l \in 1..Len(outbox[c]) :
      (/\ k < l
       /\ outbox[c][k].type = "EOSE"
       /\ outbox[c][l] = outbox[c][k])
      => \E i \in 1..Len(tasks) :
           /\ IsReqTask(i)
           /\ tasks[i].conn = c
           /\ tasks[i].sub = outbox[c][k].sub
           /\ k <= tasks[i].mark
           /\ tasks[i].mark < l

\* C12: the rows the storage query of a REQ returns are stored events that
\* the live matcher matches against the REQ's filters, and they are all of
\* them up to the query limit.
C12_ReplayIsMatcher ==
  [][\A i \in 1..Len(tasks) :
       (IsReqTask(i) /\ tasks[i].pc = "getEvents" /\ tasks'[i].pc = "reply")
       => LET hit == {row \in Range(events) :
                        eventMatchesFilters(row, tasks[i].filters)}
          IN /\ Range(tasks'[i].rows) \subseteq hit
             /\ Len(tasks'[i].rows) = Min(DefaultQueryLimit, Cardinality(hit))
    ]_vars

\* The EVENT messages among the messages this step sends on connection c.
SentEvents(c) == SelectSeq(Sent(c), LAMBDA m : m.type = "EVENT")

\* C13: a REQ whose filter carries a limit n is answered with at most n
\* replayed events before its EOSE.
C13_ReplayWithinLimit ==
  [][\A i \in 1..Len(tasks) :
       (IsReqTask(i) /\ Ends(i))
       => \A k \in 1..Len(tasks[i].filters) :
            Has(tasks[i].filters[k], "limit")
            => Len(SentEvents(tasks[i].conn)) <= tasks[i].filters[k].limit
    ]_vars

OwnedBy(subs, c) == SelectSeq(subs, LAMBDA s : s.ws = c)

\* A message of the given type arrives in this step: its task is appended.
Arrives(type) ==
  /\ Len(tasks') = Len(tasks) + 1
  /\ tasks'[Len(tasks')].type = type

\* C15: a REQ or a CLOSE of one connection leaves the subscriptions of every
\* other connection (their names and filters) as they were.
C15_ScopedToConnection ==
  [][(Arrives("REQ") \/ Arrives("CLOSE"))
       => \A c \in Conns \ {tasks'[Len(tasks')].conn} :
            OwnedBy(subscriptions', c) = OwnedBy(subscriptions, c)
    ]_vars

\* C17: once a CLOSE for a name has arrived on a connection, and until a
\* later REQ of that connection for the name arrives, the connection
\* receives no EVENT and no EOSE message with that name.
C17_SilentAfterClose ==
  \A i \in 1..Len(tasks) :
    (/\ tasks[i].type = "CLOSE"
     /\ \A j \in (i + 1)..Len(tasks) :
          ~(IsReqTask(j) /\ tasks[j].conn = tasks[i].conn /\ tasks[j].sub = tasks[i].sub))
    => \A m \in Range(After(tasks[i].conn, tasks[i].mark)) :
         ~(m.type \in {"EVENT", "EOSE"} /\ m.sub = tasks[i].sub)

IsLastReq(j, c, sub) ==
  /\ IsReqTask(j) /\ tasks[j].conn = c /\ tasks[j].sub = sub
  /\ \A k \in (j + 1)..Len(tasks) :
       ~(IsReqTask(k) /\ tasks[k].conn = c /\ tasks[k].sub = sub)

\* C18: after a REQ the registry holds exactly one subscription for the
\* REQ's connection and name, with the REQ's filters; and an admission sends
\* an EVENT under a name to a connection only if the filters of that
\* connection's latest REQ for the name match the event.
C18_ReqReplaces ==
  [][/\ Arrives("REQ") =>
          LET t == tasks'[Len(tasks')]
              mine == SelectSeq(subscriptions', LAMBDA s : s.id = t.sub /\ s.ws = t.conn)
          IN /\ Len(mine) = 1
             /\ mine[1].filters = t.filters
     /\ \A i \in 1..Len(tasks) :
          Admits(i) =>
            \A c \in Conns :
              \A m \in Range(SentEvents(c)) :
                \E j \in 1..Len(tasks) :
                  /\ IsLastReq(j, c, m.sub)
                  /\ Matches(tasks[i].event, tasks[j].filters)
    ]_vars

\* Connection A replaced a subscription matching everything by one matching
\* nothing; an event admitted afterwards was not sent to A under that name.
C18_Witness ==
  \E i, j, k \in 1..Len(tasks) :
    /\ i < j /\ j < k
    /\ IsReqTask(i) /\ IsReqTask(j) /\ IsEventTask(k)
    /\ tasks[i].conn = tasks[j].conn /\ tasks[i].sub = tasks[j].sub
    /\ Matches(tasks[k].event, tasks[i].filters)
    /\ ~Matches(tasks[k].event, tasks[j].filters)
    /\ tasks[k].pc = "done"
    /\ tasks[k].reply.ok
    /\ open[tasks[i].conn]
    /\ Len(OwnedBy(subscriptions, tasks[i].conn)) = 1
    /\ EventMsg(tasks[i].sub, tasks[k].event) \notin Range(outbox[tasks[i].conn])

\* The status edges of the specification.
StatusEdges ==
  {<<"submitted", "under_review">>, <<"under_review", "accepted">>,
   <<"under_review", "rejected">>, <<"accepted", "published">>}

\* C19: the status of a paper record changes only along submitted ->
\* under_review, under_review -> accepted, under_review -> rejected and
\* accepted -> published; a published or rejected record keeps its status.
C19_StatusEdges ==
  [][\A id \in DOMAIN papers :
       /\ id \in DOMAIN papers'
       /\ papers'[id].status # papers[id].status
            => <<papers[id].status, papers'[id].status>> \in StatusEdges
    ]_vars

\* C20: a record that becomes published gets a publication timestamp, and a
\* record that has a publication timestamp keeps it in every later step.
C20_PublishedAtStampedOnce ==
  [][\A id \in DOMAIN papers' :
       /\ papers'[id].status = "published" => papers'[id].published_at # Null
       /\ (id \in DOMAIN papers /\ papers[id].published_at # Null)
            => papers'[id].published_at = papers[id].published_at
    ]_vars

\* The UPDATE of markInvoicePaid for the hash h runs in this step.
MarksPaid(h) ==
  \E j \in 1..Len(checks) :
    /\ checks[j].hash = h
    /\ checks[j].pc = "markInvoicePaid"
    /\ checks'[j].pc = "done"

\* C21: an invoice row stays, a paid invoice stays paid, and the paid flag
\* is written only to an invoice that is not yet paid, so it is written
\* once.
C21_PaidSetOnce ==
  [][\A h \in DOMAIN invoices :
       /\ h \in DOMAIN invoices'
       /\ invoices[h].paid => invoices'[h].paid
       /\ MarksPaid(h) => ~invoices[h].paid
    ]_vars

GateReasons ==
  {"Payment required", "Invalid payment hash", "Payment not completed",
   "Insufficient payment amount"}

\* The reason the specification gives for rejecting an event at the payment
\* gate when the required amount is amount.
GateReason(event, amount) ==
  IF ~TruthyStr(PaymentRef(event)) THEN "Payment required"
  ELSE IF PaymentRef(event) \notin DOMAIN invoices THEN "Invalid payment hash"
  ELSE IF ~invoices[PaymentRef(event)].paid THEN "Payment not completed"
  ELSE "Insufficient payment amount"

\* C22: a paper rejected by the payment gate is rejected for the first
\* reason that applies, in the order no reference, no invoice, invoice not
\* paid, amount too small; 'Payment required' carries the price; and the
\* rejecting step changes no store and no registry and sends nothing but
\* the OK to the submitter.
C22_RejectionPrecedence ==
  [][\A i \in 1..Len(tasks) :
       (/\ IsEventTask(i)
        /\ Ends(i)
        /\ ~tasks'[i].reply.ok
        /\ tasks'[i].reply.reason \in GateReasons)
       => LET event == tasks[i].event
              amount == tasks'[i].price
              reply == tasks'[i].reply
          IN /\ ~GateOpen(event, amount)
             /\ reply.reason = GateReason(event, amount)
             /\ reply.reason = "Payment required" => reply.sats = amount
             /\ UNCHANGED <<events, papers, files, subscriptions>>
             /\ outbox' = [outbox EXCEPT ![tasks[i].conn] = Append(@, reply)]
    ]_vars

\* A paper whose invoice is neither paid nor large enough was rejected with
\* 'Payment not completed' while a subscription matching it was registered,
\* and nothing was stored or delivered.
C22_Witness ==
  \E i \in 1..Len(tasks) :
    /\ IsEventTask(i)
    /\ tasks[i].pc = "done"
    /\ tasks[i].reply.reason = "Payment not completed"
    /\ PaymentRef(tasks[i].event) \in DOMAIN invoices
    /\ invoices[PaymentRef(tasks[i].event)].amount_sats < tasks[i].price
    /\ \E s \in Range(subscriptions) : Matches(tasks[i].event, s.filters)
    /\ events = << >> /\ papers = << >> /\ files = {}
    /\ \A c \in Conns : \A m \in Range(outbox[c]) : m.type # "EVENT"

\* The kinds the specification puts a price on.
PricedKinds == {KindPaper, KindComment}

\* The content of the event is larger than the configured max_content_size.
Oversize(event) ==
  calculateContentSize(event.content) > configInt("max_content_size", DefaultMaxContentSize)

\* C23: the handler of a long-form or comment event whose content exceeds
\* max_content_size does one thing only: it answers OK(false, 'Content too
\* large'), with no price computed, no invoice read, nothing stored, nothing
\* written to the content store and nothing sent to anyone else.
C23_OversizeRejectedFirst ==
  [][\A i \in 1..Len(tasks) :
       (/\ IsEventTask(i)
        /\ tasks[i].event.kind \in PricedKinds
        /\ Oversize(tasks[i].event)
        /\ tasks'[i] # tasks[i])
       => LET reply == OKMsg(tasks[i].event.id, FALSE, "Content too large")
          IN /\ tasks' = [tasks EXCEPT ![i].pc = "done", ![i].reply = reply]
             /\ outbox' = [outbox EXCEPT ![tasks[i].conn] = Append(@, reply)]
             /\ UNCHANGED <<events, papers, files, subscriptions>>
    ]_vars

\* A message that lacks the required structure arrives in this step: one
\* that handleMessage answers itself, or a REQ that names no subscription.
MalformedArrives ==
  \/ Arrives("MESSAGE")
  \/ Arrives("REQ") /\ tasks'[Len(tasks')].sub = Undefined

\* C24: a message that is not valid JSON, is not an array, has an unknown
\* first element, is an EVENT without an event or a REQ without a
\* subscription name is answered with one NOTICE and nothing else: the
\* registry, the event store and the paper records stay as they were and no
\* connection is sent an EVENT or an EOSE.
C24_MalformedIsNoticeOnly ==
  [][MalformedArrives
       => LET c == tasks'[Len(tasks')].conn
          IN /\ Len(Sent(c)) = 1
             /\ Sent(c)[1].type = "NOTICE"
             /\ \A d \in Conns \ {c} : Sent(d) = << >>
             /\ UNCHANGED <<subscriptions, events, papers, files>>
    ]_vars

\* The handler of REQ task i fails in this step: it leaves the await of
\* db.getEvents without the rows.
ReqFailsAt(i) ==
  /\ IsReqTask(i)
  /\ tasks[i].pc = "getEvents"
  /\ tasks'[i].pc = "done"

\* C25: when the processing of a REQ fails (a null filter, or the query
\* rejected by the database) the connection is sent a NOTICE and, that REQ
\* being the latest of its connection for the name, the registry holds no
\* entry for the name afterwards.
C25_FailedReqNotRegistered ==
  [][\A i \in 1..Len(tasks) :
       (ReqFailsAt(i) /\ IsLastReq(i, tasks[i].conn, tasks[i].sub))
       => /\ Len(Sent(tasks[i].conn)) = 1
          /\ Sent(tasks[i].conn)[1].type = "NOTICE"
          /\ \A s \in Range(subscriptions') : s.id # tasks[i].sub
    ]_vars

\* Task k before task i submitted the same event and was answered
\* OK(false, 'Server error').
FailedBefore(i, k) ==
  /\ k < i
  /\ IsEventTask(k)
  /\ tasks[k].event = tasks[i].event
  /\ tasks[k].pc = "done"
  /\ tasks[k].reply = OKMsg(tasks[k].event.id, FALSE, "Server error")

\* C26: a submission that meets a failing database or content store is
\* answered OK(false, 'Server error') and nothing else is sent, to anyone,
\* and the sockets and the registry stay as they were; and when the same
\* event is submitted again with its payment in order and every call works,
\* it is answered OK(true).
C26_FailureIsLocal ==
  [][\A i \in 1..Len(tasks) :
       (IsEventTask(i) /\ Ends(i))
       => LET reply == tasks'[i].reply
          IN /\ reply = OKMsg(tasks[i].event.id, FALSE, "Server error")
                => /\ outbox' = [outbox EXCEPT ![tasks[i].conn] = Append(@, reply)]
                   /\ UNCHANGED <<subscriptions, open>>
             /\ (/\ ~FirstSubmission(i)
                 /\ \E k \in 1..Len(tasks) : FailedBefore(i, k)
                 /\ GateOpen(tasks[i].event, tasks'[i].price))
                => reply.ok
    ]_vars

\* The OK messages for the event of task i that this step sends to the
\* task's connection.
OksSent(i) ==
  SelectSeq(Sent(tasks[i].conn),
            LAMBDA m : m.type = "OK" /\ m.id = tasks[i].event.id)

\* C27: the handler of an EVENT on an open connection sends exactly one OK
\* for the event, in the step in which it ends, and none before.
C27_ExactlyOneOk ==
  [][\A i \in 1..Len(tasks) :
       (IsEventTask(i) /\ open[tasks[i].conn] /\ tasks'[i] # tasks[i])
       => Len(OksSent(i)) = IF Ends(i) THEN 1 ELSE 0
    ]_vars

\* No admission and no deletion is in progress.
Quiet == \A i \in 1..Len(tasks) : tasks[i].pc = "done"

\* Every record names a stored event and every stored long-form event has
\* its record (one at most: the records are keyed by event_id).
RecordsMatchEvents ==
  /\ \A id \in DOMAIN papers : id \in DOMAIN events
  /\ \A id \in DOMAIN events : events[id].kind = KindPaper => id \in DOMAIN papers

\* C28: whenever no admission and no deletion is in progress, also after
\* one that failed part-way, the paper records and the stored long-form
\* events correspond one-to-one; and no step removes a record and leaves its
\* event in the store.
C28_RecordsMatchEvents ==
  [][/\ Quiet' => RecordsMatchEvents'
     /\ \A id \in DOMAIN papers :
          id \notin DOMAIN papers' => id \notin DOMAIN events'
    ]_vars

\* The id of the event is the canonical hash of the event's own fields.
IdIsHash(event) == event.id = getEventHash(event)

\* C29: every event in the event store, and every event that an EVENT
\* message has carried to a connection, live or replayed, has an id equal to
\* the canonical hash of its own fields.
C29_IdsAreHashes ==
  /\ \A row \in Range(events) : IdIsHash(row)
  /\ \A c \in Conns : \A m \in Range(outbox[c]) :
       m.type = "EVENT" => IdIsHash(m.event)

\* C30: the handler of a valid event whose kind has no price computes no
\* price on its way, and ends by answering OK(true) with the event in the
\* event store and an EVENT message sent under every live subscription that
\* matches it.
C30_FreeKindsPassThrough ==
  [][\A i \in 1..Len(tasks) :
       (/\ IsEventTask(i)
        /\ tasks[i].event.id = getEventHash(tasks[i].event)
        /\ tasks[i].event.kind \notin PricedKinds
        /\ tasks'[i] # tasks[i])
       => LET event == tasks[i].event
          IN /\ tasks'[i].price = tasks[i].price
             /\ Ends(i) =>
                  /\ tasks'[i].reply.ok
                  /\ event.id \in DOMAIN events'
                  /\ \A s \in Range(subscriptions) :
                       (open[s.ws] /\ Matches(event, s.filters))
                       => EventMsg(s.id, event) \in Range(Sent(s.ws))
    ]_vars

\* The places of message m in what connection c has been sent, and the
\* first of them (0 when there is none).
Positions(c, m) == {k \in 1..Len(outbox[c]) : outbox[c][k] = m}

FirstPosition(c, m) ==
  IF Positions(c, m) = {} THEN 0
  ELSE CHOOSE k \in Positions(c, m) : \A n \in Positions(c, m) : k <= n

\* C31: on one connection, when OK(true) for one event was sent before
\* OK(true) for another, a subscription that was sent both events was sent
\* the first before the second.
C31_DeliveriesInAdmissionOrder ==
  \A c \in Conns, sub \in SubIds, i, j \in 1..Len(tasks) :
    (/\ IsEventTask(i) /\ IsEventTask(j)
     /\ tasks[i].conn = c /\ tasks[j].conn = c
     /\ tasks[i].pc = "done" /\ tasks[j].pc = "done"
     /\ tasks[i].reply.ok /\ tasks[j].reply.ok
     /\ tasks[i].event # tasks[j].event
     /\ FirstPosition(c, tasks[i].reply) < FirstPosition(c, tasks[j].reply)
     /\ Positions(c, EventMsg(sub, tasks[i].event)) # {}
     /\ Positions(c, EventMsg(sub, tasks[j].event)) # {})
    => FirstPosition(c, EventMsg(sub, tasks[i].event))
         < FirstPosition(c, EventMsg(sub, tasks[j].event))

\* The reply arrived before the reaction, the reaction was answered first,
\* and the subscription was sent the reaction and then the reply.
C31_Witness ==
  \E i, j \in 1..Len(tasks) :
    /\ i < j
    /\ IsEventTask(i) /\ IsEventTask(j)
    /\ tasks[i].event = evReply /\ tasks[j].event = evReaction
    /\ tasks[i].pc = "done" /\ tasks[j].pc = "done"
    /\ FirstPosition("A", tasks[j].reply) < FirstPosition("A", tasks[i].reply)
    /\ FirstPosition("A", EventMsg("s1", evReaction)) > 0
    /\ FirstPosition("A", EventMsg("s1", evReaction))
         < FirstPosition("A", EventMsg("s1", evReply))

\* ceil(a / b) for natural a and positive b.
Ceil(a, b) == (a + b - 1) \div b

\* C32: the price quoted for a size and a duration is
\* ceil(sizeBytes / 2^20 * ratePerMbYear * durationYears), with the rate
\* price_per_mb_year had at the time of the call.
C32_PriceIsRateTimesSize ==
  (Has(probe, "endpoint") /\ probe.endpoint = "/pricing")
    => probe.amount_sats =
         Ceil(probe.size_bytes * probe.rate * probe.duration_years, MiB)

Max(a, b) == IF a > b THEN a ELSE b

\* C33: the comment price is max(1, ceil(sizeBytes / 2^20 * commentRate)),
\* hence at least 1, with commentRate the rate price_per_comment_mb, which is
\* not the rate of the papers.
C33_CommentPriceFloor ==
  (Has(probe, "endpoint") /\ probe.endpoint = "/comment-invoice")
    => /\ probe.amount_sats >= 1
       /\ probe.amount_sats = Max(1, Ceil(probe.size_bytes * probe.rate, MiB))

\* The tag-value constraints a filter can carry, with the tag each names.
TagNameOf == ("#e" :> "e") @@ ("#p" :> "p")

\* The event has a tag with this name whose value is one of the values.
HasTag(event, name, values) ==
  \E t \in 1..Len(event.tags) :
    /\ Len(event.tags[t]) >= 2
    /\ event.tags[t][1] = name
    /\ event.tags[t][2] \in values

\* Every tag-value constraint of the filter holds for the event.
TagsSatisfied(event, filter) ==
  \A key \in DOMAIN filter \cap DOMAIN TagNameOf :
    HasTag(event, TagNameOf[key], filter[key])

\* C34: an EVENT message, live or replayed, is sent under a subscription
\* only if the event satisfies the tag-value constraints of one of the
\* subscription's filters.
C34_TagConstraintsCount ==
  [][\A s \in Range(subscriptions) : \A m \in Range(Sent(s.ws)) :
       (m.type = "EVENT" /\ m.sub = s.id)
       => \E k \in 1..Len(s.filters) : TagsSatisfied(m.event, s.filters[k])
    ]_vars

\* C35: every EVENT and every REQ that arrives is eventually answered, its
\* handler having ended with the OK, or with the EOSE or a NOTICE, also when
\* a call it awaits never returns.
C35_EveryMessageAnswered ==
  \A i \in 1..MaxHangTasks :
    (i <= Len(tasks)) ~> (i <= Len(tasks) /\ tasks[i].pc = "done")

----------------------------------------------------------------------------
\* The invoice the last POST /invoice answered with is the one event names,
\* and it was requested for the byte size of the event's content, for one
\* year.
QuotedFor(event) ==
  /\ probe # NoRow
  /\ probe.endpoint = "/invoice"
  /\ probe.payment_hash = PaymentRef(event)
  /\ probe.size_bytes = calculateContentSize(event.content)
  /\ probe.duration_years = 1

\* Task i is the only submission of its event so far.
SubmittedOnce(i) ==
  \A k \in 1..Len(tasks) :
    (k # i /\ tasks[k].type = "EVENT") => tasks[k].event.id # tasks[i].event.id

----------------------------------------------------------------------------
\* C37: every paper record that carries a payment reference names a stored
\* invoice, and its price_paid is the amount of that invoice.
C37_PricePaidIsInvoiceAmount ==
  \A id \in DOMAIN papers :
    TruthyStr(papers[id].payment_hash) =>
      /\ getInvoice(papers[id].payment_hash) # NoRow
      /\ papers[id].price_paid = getInvoice(papers[id].payment_hash).amount_sats

----------------------------------------------------------------------------
\* C38: a subscription that is registered once is sent each event at most
\* once, whether by the replay of its REQ or by a live broadcast: no EVENT
\* message stands twice in what its connection has been sent.
C38_ReplayOrLiveNotBoth ==
  \A c \in Conns : \A m \in Range(outbox[c]) :
    m.type = "EVENT" => Cardinality(Positions(c, m)) <= 1

----------------------------------------------------------------------------
\* C39: no two paper records of different events carry the same payment
\* reference: a paid invoice admits one priced event at most.
C39_OneEventPerInvoice ==
  \A a, b \in DOMAIN papers :
    (a # b /\ TruthyStr(papers[a].payment_hash))
    => papers[a].payment_hash # papers[b].payment_hash

----------------------------------------------------------------------------
\* C40: when the handler of a submission ends with OK(true), no connection
\* is sent an EVENT message that a live broadcast or a replay has sent it
\* already: a subscription that was sent the event at its first admission
\* is not sent it again when the event is submitted again.
C40_ResubmissionNotRedelivered ==
  [][\A i \in 1..Len(tasks) :
       Admits(i)
       => \A c \in Conns : \A m \in Range(Sent(c)) :
            (m.type = "EVENT" /\ m.event.id = tasks[i].event.id)
            => m \notin Range(outbox[c])]_vars

====
